---- MODULE Spec2Model ----
(***************************************************************************)
(* The i18n resolver of src/src/i18n/utils.ts: the registry `ui`, the      *)
(* factory `useTranslations` and the closure `t` it returns, and the       *)
(* Markdown pipeline configured after it: customRehypeLazyLoadImage and    *)
(* the plugin lists handed to defineConfig.                                *)
(*                                                                         *)
(* JavaScript values are records [type, val]:                              *)
(*   string    val is the text                                             *)
(*   undefined                                                             *)
(*   registry  the object `ui` itself                                      *)
(*   object    a locale dictionary, val is its language code               *)
(*   function  a built-in function reached through the prototype chain     *)
(*   throw     an abrupt completion, val is the error's name               *)
(***************************************************************************)
EXTENDS Integers, Sequences, FiniteSets, TLC

VARIABLES
  ui,         \* the registry
  resolvers,  \* the closures useTranslations has returned
  calls,      \* the calls of those closures, with what each returned
  flights,    \* calls of t in progress, one operand of || at a time
  tree,       \* the hast tree handed to the rehype transformer
  prev,       \* the tree as it was before the transformer's last run
  runs,       \* how often the transformer has run on the tree
  applied     \* the plugins the Markdown pipeline has applied, in order

vars == <<ui, resolvers, calls, flights, tree, prev, runs, applied>>
i18nVars == <<ui, resolvers, calls>>
rehypeVars == <<tree, prev, runs, applied>>

\* ---- bounds ----
MaxResolvers == 2
MaxCalls == 3
MaxFlights == 2
MaxElements == 2
MaxRuns == 2

\* ---- value constructors ----
Str(s) == [type |-> "string", val |-> s]
Undefined == [type |-> "undefined", val |-> ""]
Registry == [type |-> "registry", val |-> "ui"]
Dict(l) == [type |-> "object", val |-> l]
Fn(f) == [type |-> "function", val |-> f]
TypeError == [type |-> "throw", val |-> "TypeError"]

\* ---- configuration ----
\* a default language that the registry does not hold
configEs == [lang |-> "es"]

config == [lang |-> "en"]

\* the language codes under which `ui` is built
uiKeys == {"en", "zh-cn", "cs"}

\* language strings handed to useTranslations: the registry's, an unknown
\* one, and one naming a member every object inherits
Languages == uiKeys \cup {"fr", "constructor"}

\* keys a dictionary may define, and the key strings handed to t
DictKeys == {"greeting"}
Keys == DictKeys \cup {"farewell", "constructor"}

\* the text a language's dictionary gives a key when it is not empty
Text(l) ==
  CASE l = "en" -> "Hello"
    [] l = "zh-cn" -> "nihao"
    [] OTHER -> "Ahoj"

\* the dictionaries a language may be given: every key is left out, empty,
\* or the language's own text
LocaleDictionaries(l) ==
  UNION { [ks -> {"", Text(l)}] : ks \in SUBSET DictKeys }

\* ---- property access ----
\* members found on Object.prototype (those that Keys and Languages name)
ObjectPrototype(p) ==
  IF p = "constructor" THEN Fn("Object") ELSE Undefined

\* members found on a built-in function through Function.prototype
FunctionPrototype(f, p) ==
  IF p = "constructor" THEN Fn("Function") ELSE Undefined

\* v[p] in the registry u: own properties first, then the prototype chain;
\* reading a property of undefined throws
Get(u, v, p) ==
  CASE v.type = "throw" -> v
    [] v.type = "undefined" -> TypeError
    [] v.type = "registry" ->
         IF p \in DOMAIN u THEN Dict(p) ELSE ObjectPrototype(p)
    [] v.type = "object" ->
         IF p \in DOMAIN u[v.val] THEN Str(u[v.val][p]) ELSE ObjectPrototype(p)
    [] v.type = "function" -> FunctionPrototype(v.val, p)
    [] OTHER -> Undefined

\* a truthiness that only undefined fails
ToBooleanDefined(v) == v.type # "undefined"

\* ToBoolean
ToBoolean(v) == ~(v.type = "undefined" \/ (v.type = "string" /\ v.val = ""))

\* a || b, where b is evaluated only when a is falsy
LogicalOr(a, b) ==
  IF a.type = "throw" THEN a
  ELSE IF ToBoolean(a) THEN a ELSE b

\* ---- the resolver ----
\* a resolver without the fallback to the default language
tNoFallback(u, lang, key) ==
  Get(u, Get(u, Registry, lang), key)

\* a resolver whose fallback is the result of the previous lookup
tStateful(u, lang, key) ==
  LogicalOr(Get(u, Get(u, Registry, lang), key),
            IF calls = << >> THEN Get(u, Get(u, Registry, config.lang), key)
            ELSE calls[Len(calls)].result)

t(u, lang, key) ==
  LogicalOr(Get(u, Get(u, Registry, lang), key),
            Get(u, Get(u, Registry, config.lang), key))

\* the language of the resolver constructed last (one variable shared by
\* all closures)
BoundLangShared(rs, i) == rs[Len(rs)].lang

\* the language a resolver was constructed with
BoundLang(rs, i) == rs[i].lang

\* ---- state machine ----
Init ==
  /\ ui \in [uiKeys -> UNION { LocaleDictionaries(l) : l \in uiKeys }]
  /\ \A l \in uiKeys : ui[l] \in LocaleDictionaries(l)
  /\ resolvers = << [lang |-> config.lang] >>
  /\ calls = << >>
  /\ flights = << >>
  /\ tree = << >>
  /\ prev = << >>
  /\ runs = 0
  /\ applied = << >>

\* a construction that registers a language the registry does not hold
useTranslationsRegistering(lang) ==
  /\ Len(resolvers) < MaxResolvers
  /\ resolvers' = Append(resolvers, [lang |-> lang])
  /\ ui' = IF lang \in DOMAIN ui THEN ui ELSE (lang :> << >>) @@ ui
  /\ UNCHANGED <<calls, flights>>
  /\ UNCHANGED rehypeVars

\* a construction that refuses a language the registry does not hold
useTranslationsChecked(lang) ==
  /\ lang \in DOMAIN ui
  /\ Len(resolvers) < MaxResolvers
  /\ resolvers' = Append(resolvers, [lang |-> lang])
  /\ UNCHANGED <<ui, calls, flights>>
  /\ UNCHANGED rehypeVars

\* useTranslations(lang): returns a closure over lang
useTranslations(lang) ==
  /\ Len(resolvers) < MaxResolvers
  /\ resolvers' = Append(resolvers, [lang |-> lang])
  /\ UNCHANGED <<ui, calls, flights>>
  /\ UNCHANGED rehypeVars

\* a call that stores a string it resolved in the requested dictionary
CallWriting(i, key) ==
  LET lang == BoundLang(resolvers, i)
      r == t(ui, lang, key)
  IN /\ Len(calls) < MaxCalls
     /\ calls' = Append(calls, [res |-> i, key |-> key, result |-> r])
     /\ ui' = IF lang \in DOMAIN ui /\ r.type = "string"
              THEN [ui EXCEPT ![lang] = (key :> r.val) @@ @]
              ELSE ui
     /\ UNCHANGED <<resolvers, flights>>
     /\ UNCHANGED rehypeVars

\* a call of the closure number i with key
Call(i, key) ==
  /\ Len(calls) < MaxCalls
  /\ calls' = Append(calls, [res |-> i, key |-> key,
                             result |-> t(ui, BoundLang(resolvers, i), key)])
  /\ UNCHANGED <<ui, resolvers, flights>>
  /\ UNCHANGED rehypeVars

Next ==
  \/ \E lang \in Languages : useTranslations(lang)
  \/ \E i \in 1..Len(resolvers), key \in Keys : Call(i, key)

Spec == Init /\ [][Next]_vars

\* ---- calls of t that overlap ----
\* the key of the call started last (one variable shared by all calls)
ArgKeyShared(fs, f) == fs[Len(fs)].key

\* the key a call was given
ArgKey(fs, f) == fs[f].key

\* t(key) is entered: lang comes from the closure, key is the argument
Begin(lang, key) ==
  /\ Len(flights) < MaxFlights
  /\ flights' = Append(flights, [lang |-> lang, key |-> key, pc |-> "own",
                                 result |-> Undefined])
  /\ UNCHANGED i18nVars
  /\ UNCHANGED rehypeVars

\* the left operand ui[lang][key] is evaluated; a throw or a truthy value
\* ends the call
EvalOwn(f) ==
  /\ flights[f].pc = "own"
  /\ LET a == Get(ui, Get(ui, Registry, flights[f].lang), ArgKey(flights, f))
     IN flights' = [flights EXCEPT ![f] =
          IF a.type = "throw" \/ ToBoolean(a)
          THEN [@ EXCEPT !.pc = "done", !.result = a]
          ELSE [@ EXCEPT !.pc = "fallback"]]
  /\ UNCHANGED i18nVars
  /\ UNCHANGED rehypeVars

\* the right operand ui[config.lang][key] is evaluated and returned
EvalDefault(f) ==
  /\ flights[f].pc = "fallback"
  /\ flights' = [flights EXCEPT ![f] = [@ EXCEPT !.pc = "done", !.result =
       Get(ui, Get(ui, Registry, config.lang), ArgKey(flights, f))]]
  /\ UNCHANGED i18nVars
  /\ UNCHANGED rehypeVars

NextConcurrent ==
  \/ \E lang \in Languages, key \in Keys : Begin(lang, key)
  \/ \E f \in 1..Len(flights) : EvalOwn(f)
  \/ \E f \in 1..Len(flights) : EvalDefault(f)

SpecConcurrent == Init /\ [][NextConcurrent]_vars

\* ---- the rehype transformer ----
\* what reading a property that a node does not have yields
ABSENT == "undefined"

PropNames == {"src", "alt", "data-src", "data-alt", "class"}

NoProperties == [p \in PropNames |-> ABSENT]

\* the root of a hast tree: no tagName, no properties
RootNode == [tagName |-> ABSENT, parent |-> 0, properties |-> NoProperties]

\* the elements a document may hold: img with or without src, alt and
\* class, and another element that has a src of its own
Elements ==
  { [tagName |-> "img",
     properties |-> [NoProperties EXCEPT !["src"] = s, !["alt"] = a,
                                         !["class"] = c]] :
      s \in {ABSENT, "a.png", "/spinner.gif"}, a \in {ABSENT, "cat"},
      c \in {ABSENT, "wide"} }
  \cup
  { [tagName |-> "video",
     properties |-> [NoProperties EXCEPT !["src"] = s, !["class"] = c]] :
      s \in {ABSENT, "a.mp4"}, c \in {ABSENT, "wide"} }

\* the trees of k elements under the root: node 1 is the root, the parent
\* of every other node comes before it
Trees(k) ==
  { [i \in 1..(k + 1) |->
       IF i = 1 THEN RootNode
       ELSE [tagName |-> el[i].tagName, parent |-> par[i],
             properties |-> el[i].properties]] :
      el \in [2..(k + 1) -> Elements],
      par \in { q \in [2..(k + 1) -> 1..k] : \A i \in 2..(k + 1) : q[i] < i } }

\* the children of node n, in document order
RECURSIVE ChildrenFrom(_, _, _)
ChildrenFrom(tr, n, i) ==
  IF i > Len(tr) THEN << >>
  ELSE (IF tr[i].parent = n THEN << i >> ELSE << >>)
       \o ChildrenFrom(tr, n, i + 1)

children(tr, n) == ChildrenFrom(tr, n, 1)

\* a visitor that sets src and alt before it copies them
visitorSwapped(node) ==
  IF node.tagName = "img"
  THEN LET p1 == [node.properties EXCEPT !["src"] = "/spinner.gif"]
           p2 == [p1 EXCEPT !["data-src"] = p1["src"]]
           p3 == [p2 EXCEPT !["alt"] = "default"]
           p4 == [p3 EXCEPT !["data-alt"] = p3["alt"]]
       IN [node EXCEPT !.properties = p4]
  ELSE node

\* a visitor that does not look at tagName
visitorAnyTag(node) ==
  IF node.parent # 0
  THEN LET p1 == [node.properties EXCEPT !["data-src"] = node.properties["src"]]
           p2 == [p1 EXCEPT !["src"] = "/spinner.gif"]
           p3 == [p2 EXCEPT !["data-alt"] = p2["alt"]]
           p4 == [p3 EXCEPT !["alt"] = "default"]
       IN [node EXCEPT !.properties = p4]
  ELSE node

\* a visitor that leaves a node alone once it has a data-src
visitorOnce(node) ==
  IF node.tagName = "img" /\ node.properties["data-src"] = ABSENT
  THEN LET p1 == [node.properties EXCEPT !["data-src"] = node.properties["src"]]
           p2 == [p1 EXCEPT !["src"] = "/spinner.gif"]
           p3 == [p2 EXCEPT !["data-alt"] = p2["alt"]]
           p4 == [p3 EXCEPT !["alt"] = "default"]
       IN [node EXCEPT !.properties = p4]
  ELSE node

\* the function handed to visit: the four assignments, in source order
visitor(node) ==
  IF node.tagName = "img"
  THEN LET p1 == [node.properties EXCEPT !["data-src"] = node.properties["src"]]
           p2 == [p1 EXCEPT !["src"] = "/spinner.gif"]
           p3 == [p2 EXCEPT !["data-alt"] = p2["alt"]]
           p4 == [p3 EXCEPT !["alt"] = "default"]
       IN [node EXCEPT !.properties = p4]
  ELSE node

\* visit(tree, visitor): every node, parents before children; todo holds
\* the nodes still to be visited
RECURSIVE visit(_, _)
visit(tr, todo) ==
  IF todo = << >> THEN tr
  ELSE LET n == Head(todo)
       IN visit([tr EXCEPT ![n] = visitor(tr[n])],
                children(tr, n) \o Tail(todo))

\* the transformer customRehypeLazyLoadImage returns
customRehypeLazyLoadImage(tr) == visit(tr, << 1 >>)

\* a registry as the dictionaries may build it
SomeRegistry == [l \in uiKeys |-> [k \in DictKeys |-> Text(l)]]

InitRehype ==
  /\ ui = SomeRegistry
  /\ resolvers = << [lang |-> config.lang] >>
  /\ calls = << >>
  /\ flights = << >>
  /\ \E k \in 0..MaxElements : tree \in Trees(k)
  /\ prev = << >>
  /\ runs = 0
  /\ applied = << >>

\* one run of the transformer on the tree
Transform ==
  /\ runs < MaxRuns
  /\ prev' = tree
  /\ tree' = customRehypeLazyLoadImage(tree)
  /\ runs' = runs + 1
  /\ UNCHANGED applied
  /\ UNCHANGED <<i18nVars, flights>>

NextRehype == Transform

SpecRehype == InitRehype /\ [][NextRehype]_vars

\* ---- the Markdown pipeline ----
\* a remark list with the aside conversion ahead of the directive parser
remarkPluginsAsidesFirst ==
  << "remarkModifiedTime", "resetRemark", "remarkAsides", "remarkDirective" >>

\* markdown.remarkPlugins
remarkPlugins ==
  << "remarkModifiedTime", "resetRemark", "remarkDirective", "remarkAsides" >>

\* markdown.rehypePlugins
rehypePlugins == << "customRehypeLazyLoadImage" >>

\* the next remark plugin runs; it works on the Markdown tree, before the
\* hast tree is handed to the rehype stage
RunRemark ==
  /\ Len(applied) < Len(remarkPlugins)
  /\ applied' = Append(applied, remarkPlugins[Len(applied) + 1])
  /\ UNCHANGED <<tree, prev, runs>>
  /\ UNCHANGED <<i18nVars, flights>>

\* the next rehype plugin runs on the hast tree, once every remark plugin
\* has run
RunRehype ==
  /\ Len(applied) >= Len(remarkPlugins)
  /\ Len(applied) < Len(remarkPlugins) + Len(rehypePlugins)
  /\ applied' = Append(applied, rehypePlugins[Len(applied) - Len(remarkPlugins) + 1])
  /\ prev' = tree
  /\ tree' = customRehypeLazyLoadImage(tree)
  /\ runs' = runs + 1
  /\ UNCHANGED <<i18nVars, flights>>

NextPipeline == RunRemark \/ RunRehype

SpecPipeline == InitRehype /\ [][NextPipeline]_vars

\* ---- what a logged call was asked ----
LangOf(n) == resolvers[calls[n].res].lang
KeyOf(n) == calls[n].key
ResultOf(n) == calls[n].result
Logged == 1..Len(calls)

\* C1: a language that is not a key of the registry resolves every key
\* exactly as the default language does.
C1_UnknownLanguageAsDefault ==
  \A n \in Logged :
    LangOf(n) \notin DOMAIN ui =>
      ResultOf(n) = LogicalOr(Get(ui, Dict(config.lang), KeyOf(n)),
                              Get(ui, Dict(config.lang), KeyOf(n)))

\* C2: no call of the resolver raises an exception, whatever the language
\* and the key.
C2_NeverThrows ==
  \A n \in Logged : ResultOf(n).type # "throw"

\* C3: for a language of the registry and a key present in its dictionary,
\* the result is that dictionary's value, whatever string it is.
C3_OwnValueWins ==
  \A n \in Logged :
    (LangOf(n) \in DOMAIN ui /\ KeyOf(n) \in DOMAIN ui[LangOf(n)]) =>
      ResultOf(n) = Str(ui[LangOf(n)][KeyOf(n)])

\* C4: for a supported language and a key present in the default
\* dictionary but absent from the language's, the result is the default
\* dictionary's value.
C4_FallbackToDefault ==
  \A n \in Logged :
    (/\ LangOf(n) \in DOMAIN ui
     /\ KeyOf(n) \in DOMAIN ui[config.lang]
     /\ KeyOf(n) \notin DOMAIN ui[LangOf(n)]) =>
      ResultOf(n) = Str(ui[config.lang][KeyOf(n)])

C4_Witness ==
  \E n \in Logged :
    /\ LangOf(n) \in DOMAIN ui
    /\ KeyOf(n) \in DOMAIN ui[config.lang]
    /\ KeyOf(n) \notin DOMAIN ui[LangOf(n)]
    /\ ResultOf(n) = Str("Hello")

\* C5: a key absent from every dictionary resolves to undefined, without
\* an error, for any language string.
C5_AbsentKeyUndefined ==
  \A n \in Logged :
    (\A l \in DOMAIN ui : KeyOf(n) \notin DOMAIN ui[l]) =>
      ResultOf(n) = Undefined

\* C6: the result of a lookup is always a string or undefined, also for
\* keys that name members every object inherits.
C6_StringOrUndefined ==
  \A n \in Logged : ResultOf(n).type \in {"string", "undefined"}

\* C7: two lookups with the same language and key return the same result,
\* whatever lookups happened between them.
C7_Pure ==
  \A m, n \in Logged :
    (LangOf(m) = LangOf(n) /\ KeyOf(m) = KeyOf(n)) => ResultOf(m) = ResultOf(n)

C7_Witness ==
  /\ Len(calls) = 3
  /\ LangOf(1) = LangOf(3) /\ KeyOf(1) = KeyOf(3)
  /\ (LangOf(2) # LangOf(1) \/ KeyOf(2) # KeyOf(1))
  /\ ResultOf(2) # ResultOf(1)

\* C8: no construction and no lookup changes the registry or a dictionary
\* in it.
C8_RegistryUnchanged == [][ui' = ui]_vars

C8_Witness ==
  /\ Len(resolvers) > 1
  /\ \E n \in Logged : ResultOf(n).type = "string" /\ LangOf(n) = "zh-cn"
                        /\ ResultOf(n).val = "Hello"
  /\ \E n \in Logged : ResultOf(n).type = "undefined"
  /\ \E n \in Logged : ResultOf(n).type = "string" /\ LangOf(n) = "en"
                        /\ ResultOf(n).val = "Hello"

\* C9: the configured default language is always a key of the registry,
\* so the fallback lookup addresses an existing dictionary.
C9_DefaultInRegistry ==
  /\ config.lang \in DOMAIN ui
  /\ Get(ui, Registry, config.lang) = Dict(config.lang)

C9_Witness ==
  \E n \in Logged :
    /\ LangOf(n) \in DOMAIN ui \ {config.lang}
    /\ KeyOf(n) \notin DOMAIN ui[LangOf(n)]
    /\ KeyOf(n) \in DOMAIN ui[config.lang]
    /\ ResultOf(n) = Str(ui[config.lang][KeyOf(n)])

\* C10: every call of a resolver resolves its key against the language
\* given when that resolver was constructed, whichever resolvers were
\* constructed or called before the call.
C10_BoundAtConstruction ==
  \A n \in Logged :
    ResultOf(n) = LogicalOr(Get(ui, Get(ui, Registry, LangOf(n)), KeyOf(n)),
                            Get(ui, Dict(config.lang), KeyOf(n)))

C10_Witness ==
  /\ Len(resolvers) = 2
  /\ Len(calls) = 3
  /\ calls[1].res = 2 /\ calls[2].res = 1 /\ calls[3].res = 2
  /\ LangOf(1) = "zh-cn"
  /\ KeyOf(1) = KeyOf(2) /\ KeyOf(2) = KeyOf(3)
  /\ ResultOf(1) = Str("nihao") /\ ResultOf(2) = Str("Hello")
  /\ ResultOf(3) = Str("nihao")

\* C11: a call of t that overlaps other calls returns what the same call
\* returns when it runs alone, in every interleaving of their steps.
C11_ConcurrentAsAlone ==
  \A f \in 1..Len(flights) :
    flights[f].pc = "done" =>
      flights[f].result = t(ui, flights[f].lang, flights[f].key)

\* the second call ran from start to end while the first was between its
\* two operands
C11_Witness ==
  /\ Len(flights) = 2
  /\ flights[1].pc = "fallback"
  /\ flights[2].pc = "done"
  /\ flights[2].key # flights[1].key
  /\ flights[2].result.type = "string"

\* the entry a dictionary d holds for key k: its value when k is one of
\* its keys, undefined otherwise
Entry(d, k) == IF k \in DOMAIN d THEN Str(d[k]) ELSE Undefined

\* C12: the key set of the registry is exactly en, zh-cn, cs in every
\* reachable state; no operation adds or removes a language.
C12_FixedLanguages == DOMAIN ui = {"en", "zh-cn", "cs"}

C12_Witness ==
  /\ Len(resolvers) = 2
  /\ resolvers[2].lang = "fr"
  /\ \E n \in Logged : calls[n].res = 2 /\ ResultOf(n) = TypeError

\* C13: the pre-bound translator t, the first resolver, returns for every
\* key the default dictionary's entry when the key is present in it and
\* undefined when it is absent.
C13_GlobalIsDefault ==
  \A n \in Logged :
    calls[n].res = 1 => ResultOf(n) = Entry(ui[config.lang], KeyOf(n))

\* C14: for a supported language the result is that language's entry for
\* the key, the default language's entry for it, or undefined.
C14_NoThirdLanguage ==
  \A n \in Logged :
    LangOf(n) \in DOMAIN ui =>
      ResultOf(n) \in {Entry(ui[LangOf(n)], KeyOf(n)),
                       Entry(ui[config.lang], KeyOf(n)), Undefined}

\* C15: when a supported language's dictionary holds the key with the
\* empty string, the result is the default language's entry for the key.
C15_EmptyFallsBack ==
  \A n \in Logged :
    (/\ LangOf(n) \in DOMAIN ui
     /\ KeyOf(n) \in DOMAIN ui[LangOf(n)]
     /\ ui[LangOf(n)][KeyOf(n)] = "") =>
      ResultOf(n) = Entry(ui[config.lang], KeyOf(n))

C15_Witness ==
  \E n \in Logged :
    /\ LangOf(n) = "cs"
    /\ KeyOf(n) \in DOMAIN ui["cs"]
    /\ ui["cs"][KeyOf(n)] = ""
    /\ ResultOf(n) = Str("Hello")

\* C16: a resolver can be constructed for every language string,
\* supported or not; a failure shows only when the resolver is called.
C16_ConstructionNeverFails ==
  \A lang \in Languages :
    Len(resolvers) < MaxResolvers => ENABLED useTranslations(lang)

C16_Witness ==
  /\ Len(resolvers) = 2
  /\ resolvers[2].lang \notin DOMAIN ui
  /\ Len(calls) = 2
  /\ calls[1].res = 1 /\ ResultOf(1).type = "string"
  /\ calls[2].res = 2 /\ ResultOf(2) = TypeError

\* the img nodes of a tree
Imgs(tr) == { n \in 1..Len(tr) : tr[n].tagName = "img" }

\* C17: after a run of the transformer every img node, at any depth, has
\* src '/spinner.gif' and alt 'default', and its data-src and data-alt are
\* the src and alt it had before the run.
C17_LazyLoad ==
  runs > 0 =>
    \A n \in Imgs(tree) :
      /\ tree[n].properties["src"] = "/spinner.gif"
      /\ tree[n].properties["alt"] = "default"
      /\ tree[n].properties["data-src"] = prev[n].properties["src"]
      /\ tree[n].properties["data-alt"] = prev[n].properties["alt"]

\* an img below another element, with a src and an alt to keep
C17_Witness ==
  /\ runs = 1
  /\ \E n \in Imgs(tree) :
       /\ tree[n].parent > 1
       /\ tree[n].properties["data-src"] = "a.png"
       /\ tree[n].properties["data-alt"] = "cat"
       /\ tree[n].properties["src"] = "/spinner.gif"

\* C18: a run changes nothing but src, alt, data-src and data-alt of img
\* nodes: other nodes stay as they were, no node is added, removed or
\* moved, and the other properties of an img node keep their values.
C18_Frame ==
  runs > 0 =>
    /\ Len(tree) = Len(prev)
    /\ \A n \in 1..Len(tree) :
         /\ tree[n].tagName = prev[n].tagName
         /\ tree[n].parent = prev[n].parent
         /\ tree[n].tagName # "img" => tree[n] = prev[n]
         /\ \A p \in PropNames \ {"src", "alt", "data-src", "data-alt"} :
              tree[n].properties[p] = prev[n].properties[p]

C18_Witness ==
  /\ runs = 1
  /\ Len(tree) = 3
  /\ tree[2].tagName = "video" /\ tree[2].properties["src"] = "a.mp4"
  /\ tree[3].tagName = "img" /\ tree[3].parent = 2
  /\ tree[3].properties["class"] = "wide"
  /\ tree[3] # prev[3]

\* C19: a second run on a transformed tree sets data-src to
\* '/spinner.gif' and data-alt to 'default' on every img node, so the
\* src and alt the nodes first had are gone after two runs.
C19_SecondRunOverwrites ==
  runs >= 2 =>
    \A n \in Imgs(tree) :
      /\ tree[n].properties["data-src"] = "/spinner.gif"
      /\ tree[n].properties["data-alt"] = "default"

\* the second run changed a tree that the first had transformed, and the
\* src it had kept is no longer anywhere in the node
C19_Witness ==
  /\ runs = 2
  /\ tree # prev
  /\ \E n \in Imgs(tree) :
       /\ prev[n].properties["data-src"] = "a.png"
       /\ prev[n].properties["data-alt"] = "cat"
       /\ \A p \in PropNames : tree[n].properties[p] \notin {"a.png", "cat"}

\* C20: the pipeline applies remarkModifiedTime, resetRemark,
\* remarkDirective, remarkAsides in that order, and then
\* customRehypeLazyLoadImage, the only rehype plugin, after all of them.
C20_PluginOrder ==
  /\ Len(applied) <= 5
  /\ applied = SubSeq(<< "remarkModifiedTime", "resetRemark", "remarkDirective",
                         "remarkAsides", "customRehypeLazyLoadImage" >>,
                      1, Len(applied))
  /\ runs > 0 => Len(applied) = 5

C20_Witness ==
  /\ Len(applied) = 5
  /\ runs = 1
  /\ \E n \in Imgs(tree) : tree[n].properties["data-src"] = "a.png"

====
